---- MODULE Spec2Model ----
(***************************************************************************)
(* Model of src/MyGame/MyGame.cpp: the wall-occluded visibility polygon,   *)
(* the soft-falloff fan, the overlay composition of one frame, and the     *)
(* main loop (menu, levels, countdown, powerups, end screens), one pass of *)
(* the loop being one step.  In the main loop lengths are whole multiples  *)
(* of LIGHT_RANGE, times are whole seconds.                                *)
(*                                                                         *)
(* Numbers.  The source computes in float; the model computes in exact     *)
(* real arithmetic on integer inputs (rounding error is not modelled).     *)
(*  - An angle is a record [d, k]: the value atan2(d.y, d.x) + k*eps, with *)
(*    d a primitive integer vector and k in {-1, 0, 1}.                    *)
(*  - eps is the angle whose tangent is EpsNum/EpsDen = 7/10000; it        *)
(*    differs from the source's 0.0007 by about 1e-10, below the           *)
(*    resolution of a float angle.                                         *)
(*  - (cos(ang), sin(ang)) is D/|D| for the integer vector                 *)
(*    D = EpsDen*d + k*EpsNum*Perp(d) (d rotated by k*eps).                *)
(*  - A quantity a1*EpsDen + a0 or a2*EpsDen^2 + a1*EpsDen + a0 is kept as *)
(*    its coefficients, so that no product leaves the 32-bit integers of   *)
(*    TLC; only its sign is ever needed (SgnQuad).                         *)
(***************************************************************************)
EXTENDS Integers, Sequences, FiniteSets, TLC

\* ------------------------------------------------------------ bounds
\* World coordinates of the inputs are drawn from 0..GridMax.
GridMax == 2
\* maxDist is drawn from 1..MaxRange.
MaxRange == 2
\* buildWallSegments is called on its own with at most MaxWalls walls.
MaxWalls == 2
\* Screen polygons have at most MaxPoly points.
MaxPoly == 3
\* The range of the fan; the pixels of the polygons lie around this distance.
FanRange == 20

\* ------------------------------------------------------------ eps
\* const float eps = 0.0007f, as the rational tangent EpsNum/EpsDen.
EpsNum == 7
EpsDen == 10000

\* ------------------------------------------------------------ vectors
Vec(x, y) == [x |-> x, y |-> y]

Sub(a, b) == Vec(a.x - b.x, a.y - b.y)

cross2(a, b) == a.x * b.y - a.y * b.x

Dot(a, b) == a.x * b.x + a.y * b.y

\* v turned by a quarter turn counter-clockwise.
Perp(v) == Vec(0 - v.y, v.x)

Norm2(v) == v.x * v.x + v.y * v.y

Abs(n) == IF n < 0 THEN 0 - n ELSE n

Sgn(n) == IF n > 0 THEN 1 ELSE IF n < 0 THEN 0 - 1 ELSE 0

RECURSIVE Gcd(_, _)
Gcd(a, b) == IF b = 0 THEN a ELSE Gcd(b, a % b)

\* The sign of a2*EpsDen^2 + a1*EpsDen + a0, by carrying in base EpsDen.
SgnQuad(a2, a1, a0) ==
    LET r0 == a0 % EpsDen
        b1 == a1 + (a0 \div EpsDen)
        r1 == b1 % EpsDen
        b2 == a2 + (b1 \div EpsDen)
    IN  IF b2 > 0 THEN 1
        ELSE IF b2 < 0 THEN 0 - 1
        ELSE IF r1 > 0 \/ r0 > 0 THEN 1 ELSE 0

\* The sign of a1*EpsDen + a0.
SgnLin(a1, a0) == SgnQuad(0, a1, a0)

\* ------------------------------------------------------------ angles
\* std::atan2(dy, dx): the direction of (dx, dy) as a primitive vector;
\* atan2(0, 0) is 0, the direction of (1, 0).
Atan2(dy, dx) ==
    IF dx = 0 /\ dy = 0 THEN Vec(1, 0)
    ELSE LET g == Gcd(Abs(dx), Abs(dy)) IN Vec(dx \div g, dy \div g)

Ang(d, k) == [d |-> d, k |-> k]

\* Where atan2 puts a direction: 0 for (-pi, 0), 1 for 0, 2 for (0, pi),
\* 3 for pi.
Half(d) ==
    IF d.y < 0 THEN 0
    ELSE IF d.y > 0 THEN 2
    ELSE IF d.x > 0 THEN 1 ELSE 3

\* atan2(d1) < atan2(d2), for primitive vectors.
Atan2Less(d1, d2) ==
    \/ Half(d1) < Half(d2)
    \/ Half(d1) = Half(d2) /\ cross2(d1, d2) > 0

\* The sign of delta - n*eps, where delta in (0, 2*pi) is the angle turned
\* counter-clockwise from lo to hi (atan2(lo) < atan2(hi)) and n in 1..2.
\* lo turned by n*eps is C*lo + S*Perp(lo) with (C, S) = (EpsDen, EpsNum)
\* for n = 1 and (EpsDen^2 - EpsNum^2, 2*EpsDen*EpsNum) for n = 2.
SgnGap(lo, hi, n) ==
    LET X == cross2(lo, hi)
        Y == Dot(lo, hi)
    IN  IF ~(X > 0 /\ Y > 0) THEN 1
        ELSE IF n = 1 THEN SgnLin(X, 0 - EpsNum * Y)
        ELSE SgnQuad(X, 0 - 2 * EpsNum * Y, 0 - EpsNum * EpsNum * X)

\* The sign of a - b for two float angles (the comparison std::sort uses).
AngCmp(a, b) ==
    IF a.d = b.d THEN Sgn(a.k - b.k)
    ELSE IF Atan2Less(b.d, a.d)
         THEN IF b.k - a.k <= 0 THEN 1 ELSE SgnGap(b.d, a.d, b.k - a.k)
         ELSE IF a.k - b.k <= 0 THEN 0 - 1
              ELSE 0 - SgnGap(a.d, b.d, a.k - b.k)

AngLess(a, b) == AngCmp(a, b) < 0

\* ------------------------------------------------------------ segments
\* struct Segment { sf::Vector2f a, b; };
Seg(a, b) == [a |-> a, b |-> b]

\* ------------------------------------------------------------ rays
NoHit == [hit |-> FALSE, tn |-> 0, r1 |-> 0, r0 |-> 0]

\* A slip in the test: u > 0 && u < 1, so a ray through an endpoint misses.
raySegmentIntersectOpenEnds(p, ang, q, s) ==
    LET B   == ang.d
        ks  == ang.k * EpsNum
        rx1 == cross2(B, s)
        rx0 == ks * cross2(Perp(B), s)
        sg  == SgnLin(rx1, rx0)
        qmp == Vec(q.x - p.x, q.y - p.y)
        tN  == cross2(qmp, s)
        u1  == cross2(qmp, B)
        u0  == ks * cross2(qmp, Perp(B))
    IN  IF sg = 0 THEN NoHit
        ELSE IF /\ tN * sg >= 0
                /\ SgnLin(u1, u0) * sg > 0
                /\ SgnLin(u1 - rx1, u0 - rx0) * sg < 0
             THEN [hit |-> TRUE, tn |-> tN * sg, r1 |-> rx1 * sg, r0 |-> rx0 * sg]
             ELSE NoHit

\* raySegmentIntersect(p, r, q, s, tHit, hitPoint) with r = (cos, sin) of
\* ang.  With D the integer direction of ang, r = D/|D| and
\*   rxs * |D| = cross2(D, s)   = rx1*EpsDen + rx0
\*   t         = cross2(qmp, s) * |D| / (rxs*|D|)
\*   u         = cross2(qmp, D) / (rxs*|D|),  cross2(qmp, D) = u1*EpsDen + u0.
\* |rxs| < 1e-8 happens only for rxs = 0: a nonzero integer over |D| (at most
\* some 1e5 here) is far above 1e-8.
\* A hit returns tHit as tn*|D| / (r1*EpsDen + r0), numerator and
\* denominator made non-negative; hitPoint is the point at tHit along r.
raySegmentIntersect(p, ang, q, s) ==
    LET B   == ang.d
        ks  == ang.k * EpsNum
        rx1 == cross2(B, s)
        rx0 == ks * cross2(Perp(B), s)
        sg  == SgnLin(rx1, rx0)
        qmp == Vec(q.x - p.x, q.y - p.y)
        tN  == cross2(qmp, s)
        u1  == cross2(qmp, B)
        u0  == ks * cross2(qmp, Perp(B))
    IN  IF sg = 0 THEN NoHit
        ELSE IF /\ tN * sg >= 0
                /\ SgnLin(u1, u0) * sg >= 0
                /\ SgnLin(u1 - rx1, u0 - rx0) * sg <= 0
             THEN [hit |-> TRUE, tn |-> tN * sg, r1 |-> rx1 * sg, r0 |-> rx0 * sg]
             ELSE NoHit

\* The sign of t1 - t2 for two ray parameters along the same ang.
TCmp(h1, h2) ==
    SgnLin(h1.tn * h2.r1 - h2.tn * h1.r1, h1.tn * h2.r0 - h2.tn * h1.r0)

\* The sign of t - m for a ray parameter t along ang and a distance m >= 0:
\* the sign of tn^2*|D|^2 - m^2*(r1*EpsDen + r0)^2, with
\* |D|^2 = (EpsDen^2 + k^2*EpsNum^2) * |d|^2.
TCmpDist(h, ang, m) ==
    LET n2 == h.tn * h.tn * Norm2(ang.d)
        m2 == m * m
    IN  SgnQuad(n2 - m2 * h.r1 * h.r1,
                0 - 2 * m2 * h.r1 * h.r0,
                n2 * ang.k * ang.k * EpsNum * EpsNum - m2 * h.r0 * h.r0)

\* ------------------------------------------------------------ points
\* A point of the polygon.  far = TRUE: origin + dir * maxDist, the point at
\* distance m along ang.  far = FALSE: p + t * r, the point at ray parameter
\* t = tn*|D| / (r1*EpsDen + r0) along ang.
RangePoint(origin, ang, maxDist) ==
    [o |-> origin, ang |-> ang, far |-> TRUE, tn |-> 0, r1 |-> 0, r0 |-> 0,
     m |-> maxDist]

HitPoint(p, ang, h) ==
    [o |-> p, ang |-> ang, far |-> FALSE, tn |-> h.tn, r1 |-> h.r1,
     r0 |-> h.r0, m |-> 0]

\* ------------------------------------------------------------ walls
\* struct RectF { float x, y, w, h; } and the bounds of the wall made of it.
Rect(x, y, w, h) == [x |-> x, y |-> y, w |-> w, h |-> h]

\* The loop body of buildWallSegments: the four edges of one wall, pushed
\* in the order p1p2, p2p3, p3p4, p4p1.
WallEdges(b) ==
    LET p1 == Vec(b.x, b.y)
        p2 == Vec(b.x + b.w, b.y)
        p3 == Vec(b.x + b.w, b.y + b.h)
        p4 == Vec(b.x, b.y + b.h)
    IN  << Seg(p1, p2), Seg(p2, p3), Seg(p3, p4), Seg(p4, p1) >>

\* A variant that pushes an edge only if segs does not hold it yet.
RECURSIVE AppendNew(_, _, _)
AppendNew(segs, edges, n) ==
    IF n > Len(edges) THEN segs
    ELSE AppendNew(IF \E k \in 1..Len(segs) : segs[k] = edges[n]
                   THEN segs ELSE Append(segs, edges[n]),
                   edges, n + 1)

RECURSIVE buildWallSegmentsFromNoRepeat(_, _, _)
buildWallSegmentsFromNoRepeat(walls, i, segs) ==
    IF i > Len(walls) THEN segs
    ELSE buildWallSegmentsFromNoRepeat(walls, i + 1,
             AppendNew(segs, WallEdges(walls[i]), 1))

RECURSIVE buildWallSegmentsFrom(_, _, _)
buildWallSegmentsFrom(walls, i, segs) ==
    IF i > Len(walls) THEN segs
    ELSE buildWallSegmentsFrom(walls, i + 1, segs \o WallEdges(walls[i]))

buildWallSegments(walls) == buildWallSegmentsFrom(walls, 1, << >>)

\* ------------------------------------------------------------ visibility
\* A variant that samples a direction once: nothing is pushed for a point
\* whose angle is in angles already.
addAnglesForPointOnce(angles, pt, origin) ==
    LET a == Atan2(pt.y - origin.y, pt.x - origin.x)
    IN  IF \E i \in 1..Len(angles) : angles[i] = Ang(a, 0) THEN angles
        ELSE angles \o << Ang(a, 0 - 1), Ang(a, 0), Ang(a, 1) >>

\* The lambda addAnglesForPoint: three pushes onto angles.
addAnglesForPoint(angles, pt, origin) ==
    LET a == Atan2(pt.y - origin.y, pt.x - origin.x)
    IN  angles \o << Ang(a, 0 - 1), Ang(a, 0), Ang(a, 1) >>

\* for (const auto& s : segs) { addAnglesForPoint(s.a); addAnglesForPoint(s.b); }
RECURSIVE SampleAnglesFrom(_, _, _, _)
SampleAnglesFrom(origin, segs, i, angles) ==
    IF i > Len(segs) THEN angles
    ELSE SampleAnglesFrom(origin, segs, i + 1,
             addAnglesForPoint(addAnglesForPoint(angles, segs[i].a, origin),
                               segs[i].b, origin))

SampleAngles(origin, segs) == SampleAnglesFrom(origin, segs, 1, << >>)

\* A slip in the initialisation: bestP starts at origin itself.
InitBestAtOrigin(origin, ang, maxDist) ==
    [found |-> FALSE, bestT |-> NoHit,
     bestP |-> HitPoint(origin, ang, [hit |-> TRUE, tn |-> 0, r1 |-> 1, r0 |-> 0])]

\* bestT = infinity; bestP = origin + dir * maxDist.
InitBest(origin, ang, maxDist) ==
    [found |-> FALSE, bestT |-> NoHit, bestP |-> RangePoint(origin, ang, maxDist)]

\* A slip in the test: tHit <= maxDist alone, so the last hit in range wins.
AcceptAnyInRange(h, best, ang, maxDist) == TCmpDist(h, ang, maxDist) <= 0

\* A slip in the test: tHit < bestT alone, so a hit beyond maxDist is kept.
AcceptNearest(h, best, ang, maxDist) == ~best.found \/ TCmp(h, best.bestT) < 0

\* tHit < bestT && tHit <= maxDist  (bestT is infinity until a hit is kept).
Accept(h, best, ang, maxDist) ==
    /\ (~best.found \/ TCmp(h, best.bestT) < 0)
    /\ TCmpDist(h, ang, maxDist) <= 0

\* The loop over segs for one ray.
RECURSIVE CastRay(_, _, _, _, _, _)
CastRay(origin, ang, segs, maxDist, i, best) ==
    IF i > Len(segs) THEN best
    ELSE LET seg  == segs[i]
             sdir == Vec(seg.b.x - seg.a.x, seg.b.y - seg.a.y)
             h    == raySegmentIntersect(origin, ang, seg.a, sdir)
         IN  CastRay(origin, ang, segs, maxDist, i + 1,
                 IF h.hit /\ Accept(h, best, ang, maxDist)
                 THEN [found |-> TRUE, bestT |-> h,
                       bestP |-> HitPoint(origin, ang, h)]
                 ELSE best)

\* A slip in the push: a ray that struck nothing leaves no vertex.
PushHitIfStruck(hits, ang, best) ==
    IF best.found THEN Append(hits, [angle |-> ang, p |-> best.bestP]) ELSE hits

\* hits.push_back({ ang, bestP });
PushHit(hits, ang, best) == Append(hits, [angle |-> ang, p |-> best.bestP])

\* for (float ang : angles) { ... }
RECURSIVE CastAll(_, _, _, _, _, _)
CastAll(origin, segs, maxDist, angles, i, hits) ==
    IF i > Len(angles) THEN hits
    ELSE CastAll(origin, segs, maxDist, angles, i + 1,
             PushHit(hits, angles[i],
                 CastRay(origin, angles[i], segs, maxDist, 1,
                         InitBest(origin, angles[i], maxDist))))

\* std::sort(hits, a.angle < b.angle), as an insertion sort.  Hits of equal
\* angle are equal as a whole (the same ray), so every order std::sort may
\* leave them in gives the same sequence.
RECURSIVE InsertHit(_, _, _)
InsertHit(sorted, h, i) ==
    IF i > Len(sorted) \/ AngLess(h.angle, sorted[i].angle)
    THEN SubSeq(sorted, 1, i - 1) \o << h >> \o SubSeq(sorted, i, Len(sorted))
    ELSE InsertHit(sorted, h, i + 1)

RECURSIVE SortHitsFrom(_, _, _)
SortHitsFrom(hits, i, sorted) ==
    IF i > Len(hits) THEN sorted
    ELSE SortHitsFrom(hits, i + 1, InsertHit(sorted, hits[i], 1))

SortHits(hits) == SortHitsFrom(hits, 1, << >>)

\* The sorted hits of computeVisibilityPolygon(origin, segs, maxDist).
VisibilityHits(origin, segs, maxDist) ==
    SortHits(CastAll(origin, segs, maxDist, SampleAngles(origin, segs), 1, << >>))

\* for (auto& h : hits) poly.push_back(h.p);
PolyOf(hits) == [i \in 1..Len(hits) |-> hits[i].p]

computeVisibilityPolygon(origin, segs, maxDist) ==
    PolyOf(VisibilityHits(origin, segs, maxDist))

\* ------------------------------------------------------------ fan
\* sf::Color and sf::Vertex.
Color(r, g, b, a) == [r |-> r, g |-> g, b |-> b, a |-> a]

Vertex(position, color) == [position |-> position, color |-> color]

\* The minimum alpha of a rim vertex, the 25.f of std::max(a, 25.f).
MinAlpha == 25

\* static_cast<std::uint8_t> of 255.f * (1.f - t) for t = min(1, dist/maxDist),
\* dist = sqrt(dist2): the largest k in 0..255 with k <= 255 * (1 - dist/maxDist),
\* that is 255 * dist <= (255 - k) * maxDist, compared in squares.
AlphaTrunc(dist2, maxDist) ==
    IF dist2 >= maxDist * maxDist THEN 0
    ELSE CHOOSE k \in 0..255 :
             /\ 255 * 255 * dist2 <= (255 - k) * (255 - k) * maxDist * maxDist
             /\ \/ k = 255
                \/ 255 * 255 * dist2 > (254 - k) * (254 - k) * maxDist * maxDist

\* A slip: the floor std::max(a, 25.f) left out.
FanAlphaNoFloor(p, originScreen, maxDist) ==
    LET d == Vec(p.x - originScreen.x, p.y - originScreen.y)
    IN  AlphaTrunc(d.x * d.x + d.y * d.y, maxDist)

\* The alpha of the vertex at p: dist, t, a = 255*(1 - t), std::clamp(a, 0, 255),
\* std::max(a, 25), static_cast<std::uint8_t>(a).  The cast truncates; it is
\* taken before the clamp and the max here, which changes nothing because
\* their bounds are integers.
FanAlpha(p, originScreen, maxDist) ==
    LET d == Vec(p.x - originScreen.x, p.y - originScreen.y)
        a == AlphaTrunc(d.x * d.x + d.y * d.y, maxDist)
        clamped == IF a < 0 THEN 0 ELSE IF a > 255 THEN 255 ELSE a
    IN  IF clamped < MinAlpha THEN MinAlpha ELSE clamped

\* sf::Vertex(p, sf::Color(tint.r, tint.g, tint.b, a)).
\* A slip: the vertex alpha is scaled by the alpha of the tint.
FanVertexScaledByTint(p, originScreen, maxDist, tint) ==
    Vertex(p, Color(tint.r, tint.g, tint.b,
                    (FanAlpha(p, originScreen, maxDist) * tint.a) \div 255))

FanVertex(p, originScreen, maxDist, tint) ==
    Vertex(p, Color(tint.r, tint.g, tint.b, FanAlpha(p, originScreen, maxDist)))

\* for (const auto& p : polyScreen) fan.append(...);
RECURSIVE AppendFanPoints(_, _, _, _, _, _)
AppendFanPoints(fan, originScreen, polyScreen, maxDist, tint, i) ==
    IF i > Len(polyScreen) THEN fan
    ELSE AppendFanPoints(
             Append(fan, FanVertex(polyScreen[i], originScreen, maxDist, tint)),
             originScreen, polyScreen, maxDist, tint, i + 1)

\* A slip: the fan is left open, the first point is not appended again.
CloseFanNever(fan, originScreen, polyScreen, maxDist, tint) == fan

\* if (!polyScreen.empty()) fan.append(the vertex of polyScreen.front());
CloseFan(fan, originScreen, polyScreen, maxDist, tint) ==
    IF polyScreen # << >>
    THEN Append(fan, FanVertex(Head(polyScreen), originScreen, maxDist, tint))
    ELSE fan

buildSoftFan_Screen(originScreen, polyScreen, maxDist, tint) ==
    CloseFan(
        AppendFanPoints(
            << Vertex(originScreen, Color(tint.r, tint.g, tint.b, 255)) >>,
            originScreen, polyScreen, maxDist, tint, 1),
        originScreen, polyScreen, maxDist, tint)

\* ------------------------------------------------------------ overlay
\* const sf::Color WARM_TINT(255, 190, 140, 255); float glowStrength = 120.f;
WARM_TINT == Color(255, 190, 140, 255)

glowStrength == 120

\* const std::uint8_t DARK_ALPHA = 250, the alpha of darknessRect's fill.
DARK_ALPHA == 250

\* sf::BlendMode(sourceFactor, destinationFactor, Equation::Add): the same
\* factors for the colour channels and for alpha.
BlendMode(sourceFactor, destinationFactor) ==
    [colorSrc |-> sourceFactor, colorDst |-> destinationFactor,
     alphaSrc |-> sourceFactor, alphaDst |-> destinationFactor]

\* A slip in the factors: the destination is scaled by src.alpha.
ERASE_BLEND_SrcAlpha == BlendMode("Zero", "SrcAlpha")

ERASE_BLEND == BlendMode("Zero", "OneMinusSrcAlpha")

ADD_GLOW == BlendMode("SrcAlpha", "One")

\* The mode of a draw call that names none, sf::BlendAlpha.
BlendAlpha ==
    [colorSrc |-> "SrcAlpha", colorDst |-> "OneMinusSrcAlpha",
     alphaSrc |-> "One", alphaDst |-> "OneMinusSrcAlpha"]

BlendOf(name) ==
    IF name = "ERASE_BLEND" THEN ERASE_BLEND
    ELSE IF name = "ADD_GLOW" THEN ADD_GLOW
    ELSE BlendAlpha

\* A blend factor as a number of 255ths.
Factor(f, src) ==
    IF f = "Zero" THEN 0
    ELSE IF f = "One" THEN 255
    ELSE IF f = "SrcAlpha" THEN src.a
    ELSE 255 - src.a

\* Equation::Add on one 8-bit channel: sv * sf + dv * df, rounded to the
\* nearest value and clamped to 255.
BlendChannel(sv, sf, dv, df) ==
    LET sum == (sv * sf + dv * df + 127) \div 255
    IN  IF sum > 255 THEN 255 ELSE sum

\* The pixel dst after a source fragment src is drawn on it with mode.
Blend(mode, src, dst) ==
    [r |-> BlendChannel(src.r, Factor(mode.colorSrc, src), dst.r, Factor(mode.colorDst, src)),
     g |-> BlendChannel(src.g, Factor(mode.colorSrc, src), dst.g, Factor(mode.colorDst, src)),
     b |-> BlendChannel(src.b, Factor(mode.colorSrc, src), dst.b, Factor(mode.colorDst, src)),
     a |-> BlendChannel(src.a, Factor(mode.alphaSrc, src), dst.a, Factor(mode.alphaDst, src))]

\* darknessRT at a pixel after the draw calls ds[i..n], c being its colour
\* before them: darknessRect covers the pixel with its fill colour, a fan
\* covers it once with the colour of its vertex v.
RECURSIVE LayerFrom(_, _, _, _, _)
LayerFrom(ds, i, n, v, c) ==
    IF i > n THEN c
    ELSE LayerFrom(ds, i + 1, n, v,
             IF ds[i].target # "darknessRT" THEN c
             ELSE IF ds[i].what = "darknessRect"
                  THEN Blend(BlendOf(ds[i].blend), Color(0, 0, 0, DARK_ALPHA), c)
                  ELSE Blend(BlendOf(ds[i].blend), ds[i].mesh[v].color, c))

\* darknessRT.clear(sf::Color(0, 0, 0, 0)) and then the draw calls ds[1..n].
DarknessLayer(ds, n, v) == LayerFrom(ds, 1, n, v, Color(0, 0, 0, 0))

\* One draw call: the target drawn on, what is drawn, the blend mode and,
\* for a fan, its vertices.
DrawCall(target, what, blend, mesh) ==
    [target |-> target, what |-> what, blend |-> blend, mesh |-> mesh]

\* A slip: any non-empty polygon gets a fan.
FanWantedNonEmpty(polyScreen) == Len(polyScreen) >= 1

\* polyScreen.size() >= 3
FanWanted(polyScreen) == Len(polyScreen) >= 3

\* The draw calls of the darkness overlay, in order: darknessRT.draw(
\* darknessRect), darknessRT.draw(eraseFan, ERASE_BLEND) under the first
\* size test, window.draw(sf::Sprite(darknessRT.getTexture())), and
\* window.draw(glowFan, ADD_GLOW) under the second size test.
OverlayDraws(dark, wanted, eraseFan, glowFan) ==
    IF ~dark THEN << >>
    ELSE << DrawCall("darknessRT", "darknessRect", "default", << >>) >>
         \o (IF wanted
             THEN << DrawCall("darknessRT", "eraseFan", "ERASE_BLEND", eraseFan) >>
             ELSE << >>)
         \o << DrawCall("window", "darknessRT", "default", << >>) >>
         \o (IF wanted
             THEN << DrawCall("window", "glowFan", "ADD_GLOW", glowFan) >>
             ELSE << >>)

\* The darkness overlay of one frame, from darknessRT.clear to the glow:
\* dark is !(fullLightLeft > 0.f && mode == GameMode::Playing), lightRange is
\* LIGHT_RANGE.  The result holds the draw calls in order and the fans built.
DarknessOverlay(dark, originScreen, polyScreen, lightRange) ==
    IF ~dark THEN [draws |-> << >>, fans |-> << >>]
    ELSE LET wanted   == FanWanted(polyScreen)
             eraseFan == buildSoftFan_Screen(originScreen, polyScreen, lightRange,
                                             Color(255, 255, 255, 255))
             glowA    == IF glowStrength < 0 THEN 0
                         ELSE IF glowStrength > 255 THEN 255 ELSE glowStrength
             glowColor == Color(WARM_TINT.r, WARM_TINT.g, WARM_TINT.b, glowA)
             glowFan  == buildSoftFan_Screen(originScreen, polyScreen, lightRange,
                                             glowColor)
         IN  [draws |-> OverlayDraws(dark, wanted, eraseFan, glowFan),
              fans |-> IF wanted THEN << eraseFan, glowFan >> ELSE << >>]

\* ------------------------------------------------------------ game
\* Numbers of the game.  Times are whole seconds.  Lengths are whole units
\* of LIGHT_RANGE pixels, so the light reaches one unit; the radii, which
\* are pixels, are compared with distances brought to pixels.
PLAYER_RADIUS == 22
TARGET_RADIUS == 18
LIGHT_RANGE == 215
PWR_RADIUS == 16
TIME_ADD_SECONDS == 6
SPEED_DURATION == 5
ARROW_DURATION == 6
FULLLIGHT_DURATION == 5
LEVEL_TIME_LIMIT == 30

\* The number of levels makeLevels builds here.
MaxLevel == 2
\* The whole seconds of an ordinary slow frame.
FrameDt == 4
\* The longest move of one frame, in units.
MaxStep == 2

Max(a, b) == IF a > b THEN a ELSE b

Min(a, b) == IF a < b THEN a ELSE b

\* std::clamp(v, lo, hi)
Clamp(v, lo, hi) == IF v < lo THEN lo ELSE IF hi < v THEN hi ELSE v

\* A length of pixels in units.
Units(px) == px \div LIGHT_RANGE

\* enum class PowerType, struct PowerUp (active = true), struct LevelDef.
PowerTypes == << "AddTime", "Speed", "Arrow", "FullLight" >>

PowerUp(type, pos) == [type |-> type, pos |-> pos, active |-> TRUE]

\* Level i of makeLevels, on a small scale: a corridor along y = 0 from the
\* player's spawn to the target with two powerups on the way, and one wall
\* along the corridor, of another size in each level.  The powerup types go
\* round the four types, two to a level.
LevelDef(i) ==
    [worldW      |-> 3,
     worldH      |-> i + 1,
     playerSpawn |-> Vec(0, 0),
     targetSpawn |-> Vec(3, 0),
     wallRects   |-> << Rect(0, 1, 3, i) >>,
     powerups    |-> << PowerUp(PowerTypes[((2 * i - 2) % 4) + 1], Vec(1, 0)),
                        PowerUp(PowerTypes[((2 * i - 1) % 4) + 1], Vec(2, 0)) >>]

levels == [i \in 1..MaxLevel |-> LevelDef(i)]

LEVEL_COUNT == Len(levels)

\* dist2 < r*r for the squared distance dist2 in units and the radius r in
\* pixels.
Within(dist2, r) == dist2 * LIGHT_RANGE * LIGHT_RANGE < r * r

circleIntersectsRect(c, r, rect) ==
    LET left     == rect.x
        top      == rect.y
        right    == rect.x + rect.w
        bottom   == rect.y + rect.h
        closestX == Max(left, Min(c.x, right))
        closestY == Max(top, Min(c.y, bottom))
        dx       == c.x - closestX
        dy       == c.y - closestY
    IN  Within(dx * dx + dy * dy, r)

circleIntersectsCircle(a, ra, b, rb) ==
    LET d == Sub(a, b)
    IN  Within(d.x * d.x + d.y * d.y, ra + rb)

\* pressedOnce(key, wasDown): the value returned; wasDown becomes down.
pressedOnce(down, wasDown) == down /\ ~wasDown

\* The lambdas of main, on the record g of main's variables.
rebuildWallsFromLevel(g, L) ==
    [g EXCEPT !.walls = L.wallRects,
              !.wallSegs = buildWallSegments(L.wallRects)]

resetTempEffects(g) ==
    [g EXCEPT !.speedBoostLeft = 0, !.arrowLeft = 0, !.fullLightLeft = 0]

\* A slip: the walls of the level are not rebuilt.
loadLevelKeepWalls(g, levelIndex1Based) ==
    LET cl == Clamp(levelIndex1Based, 1, LEVEL_COUNT)
        L  == levels[cl]
    IN  [resetTempEffects(g) EXCEPT !.currentLevel = cl,
             !.walls = IF g.walls = << >> THEN L.wallRects ELSE @,
             !.wallSegs = IF g.walls = << >> THEN buildWallSegments(L.wallRects) ELSE @,
             !.playerPos = L.playerSpawn, !.targetPos = L.targetSpawn,
             !.powerups = L.powerups, !.timeLeft = LEVEL_TIME_LIMIT,
             !.mode = "Playing"]

\* A slip: the powerups are not copied afresh.
loadLevelKeepPowerups(g, levelIndex1Based) ==
    LET cl == Clamp(levelIndex1Based, 1, LEVEL_COUNT)
        L  == levels[cl]
    IN  [resetTempEffects(rebuildWallsFromLevel(g, L)) EXCEPT
             !.currentLevel = cl,
             !.playerPos = L.playerSpawn, !.targetPos = L.targetSpawn,
             !.powerups = IF cl = g.currentLevel /\ g.powerups # << >>
                          THEN @ ELSE L.powerups,
             !.timeLeft = LEVEL_TIME_LIMIT,
             !.mode = "Playing"]

loadLevel(g, levelIndex1Based) ==
    LET cl == Clamp(levelIndex1Based, 1, LEVEL_COUNT)
        L  == levels[cl]
    IN  [resetTempEffects(rebuildWallsFromLevel(g, L)) EXCEPT
             !.currentLevel = cl,
             !.playerPos = L.playerSpawn, !.targetPos = L.targetSpawn,
             !.powerups = L.powerups,
             !.timeLeft = LEVEL_TIME_LIMIT,
             !.mode = "Playing"]

goToMenu(g) == [g EXCEPT !.mode = "Menu"]

\* ------------------------------------------------------------ frame
\* One pass of the main loop on g, the keys held down (a set of key names),
\* dt (the clock's seconds) and step (the length speed * dt of the move, in
\* units).

\* A slip: the selection is not wrapped below 1.
SelectionUpNoWrap(sel) == sel - 1

\* menuSelection--; if (menuSelection < 1) menuSelection = LEVEL_COUNT;
SelectionUp(sel) == IF sel - 1 < 1 THEN LEVEL_COUNT ELSE sel - 1

\* menuSelection++; if (menuSelection > LEVEL_COUNT) menuSelection = 1;
SelectionDown(sel) == IF sel + 1 > LEVEL_COUNT THEN 1 ELSE sel + 1

\* The menu block up to the drawing: W, S and Enter, each on its edge.
MenuKeys(g, down) ==
    LET fireW == pressedOnce("W" \in down, g.wasW)
        g1 == [g EXCEPT !.wasW = "W" \in down,
                        !.menuSelection =
                            IF fireW THEN SelectionUp(@) ELSE @]
        fireS == pressedOnce("S" \in down, g1.wasS)
        g2 == [g1 EXCEPT !.wasS = "S" \in down,
                         !.menuSelection =
                             IF fireS THEN SelectionDown(@) ELSE @]
        fireEnter == pressedOnce("Enter" \in down, g2.wasEnter)
        g3 == [g2 EXCEPT !.wasEnter = "Enter" \in down]
    IN  IF fireEnter THEN loadLevel(g3, g3.menuSelection) ELSE g3

\* A slip: N is taken on the Lose screen as on the Win screen.
NextAllowedOnEndScreen(g) == g.mode \in {"Win", "Lose"}

\* mode == GameMode::Win, the test in front of pressedOnce(N, wasN).
NextAllowed(g) == g.mode = "Win"

\* A slip: M, R and N act while the level is played as well.
OnEndScreenOrPlaying(g) == g.mode \in {"Win", "Lose", "Playing"}

\* mode == GameMode::Win || mode == GameMode::Lose
OnEndScreen(g) == g.mode \in {"Win", "Lose"}

\* The end screen controls.  skip: the pass ended in a continue.
EndScreenControls(g, down) ==
    IF OnEndScreen(g)
    THEN LET fireM == pressedOnce("M" \in down, g.wasM)
             gM    == [g EXCEPT !.wasM = "M" \in down]
             fireR == pressedOnce("R" \in down, gM.wasR)
             gR0   == [gM EXCEPT !.wasR = "R" \in down]
             gR    == IF fireR THEN loadLevel(gR0, gR0.currentLevel) ELSE gR0
             fireN == pressedOnce("N" \in down, gR.wasN)
             gN    == [gR EXCEPT !.wasN = "N" \in down]
             next  == gN.currentLevel + 1
         IN  IF fireM THEN [g |-> goToMenu(gM), skip |-> TRUE]
             ELSE IF ~NextAllowed(gR) THEN [g |-> gR, skip |-> FALSE]
             ELSE IF ~fireN THEN [g |-> gN, skip |-> FALSE]
             ELSE IF next > LEVEL_COUNT THEN [g |-> goToMenu(gN), skip |-> TRUE]
             ELSE [g |-> loadLevel(gN, next), skip |-> FALSE]
    ELSE [g |-> [g EXCEPT !.wasM = "M" \in down, !.wasR = "R" \in down,
                          !.wasN = "N" \in down],
          skip |-> FALSE]

\* A slip: the timers run whatever the mode.
TimersRunAlways(g) == TRUE

\* mode == GameMode::Playing, the test around the three timers.
TimersRun(g) == g.mode = "Playing"

\* A slip: the remaining time is not kept from going below zero.
TimerAfterNoFloor(left, dt) == left - dt

\* std::max(0.f, left - dt)
TimerAfter(left, dt) == Max(0, left - dt)

EffectTimers(g, dt) ==
    IF TimersRun(g)
    THEN [g EXCEPT !.speedBoostLeft = TimerAfter(@, dt),
                   !.arrowLeft = TimerAfter(@, dt),
                   !.fullLightLeft = TimerAfter(@, dt)]
    ELSE g

\* A slip: the seconds are added without the clamp.
AddTimeNoClamp(timeLeft) == timeLeft + TIME_ADD_SECONDS

\* timeLeft += TIME_ADD_SECONDS; timeLeft = std::min(timeLeft, LEVEL_TIME_LIMIT + 20.f);
AddTime(timeLeft) == Min(timeLeft + TIME_ADD_SECONDS, LEVEL_TIME_LIMIT + 20)

\* A slip: a pickup adds the duration to what is left.
EffectAfterPickupAdding(left, duration) == left + duration

\* std::max(left, duration)
EffectAfterPickup(left, duration) == Max(left, duration)

\* The body of the pickup loop for powerups[i].
PickUp(g, i) ==
    LET p == g.powerups[i]
    IN  IF ~p.active THEN g
        ELSE IF ~circleIntersectsCircle(g.playerPos, PLAYER_RADIUS, p.pos, PWR_RADIUS)
        THEN g
        ELSE LET g1 == [g EXCEPT !.powerups[i].active = FALSE]
             IN  IF p.type = "AddTime"
                 THEN [g1 EXCEPT !.timeLeft = AddTime(@)]
                 ELSE IF p.type = "Speed"
                 THEN [g1 EXCEPT !.speedBoostLeft = EffectAfterPickup(@, SPEED_DURATION)]
                 ELSE IF p.type = "Arrow"
                 THEN [g1 EXCEPT !.arrowLeft = EffectAfterPickup(@, ARROW_DURATION)]
                 ELSE IF p.type = "FullLight"
                 THEN [g1 EXCEPT !.fullLightLeft = EffectAfterPickup(@, FULLLIGHT_DURATION)]
                 ELSE g1

RECURSIVE PickUpFrom(_, _)
PickUpFrom(g, i) ==
    IF i > Len(g.powerups) THEN g ELSE PickUpFrom(PickUp(g, i), i + 1)

\* dir before normalize: W and S along y, A and D along x.
KeyDir(down) ==
    Vec((IF "D" \in down THEN 1 ELSE 0) - (IF "A" \in down THEN 1 ELSE 0),
        (IF "S" \in down THEN 1 ELSE 0) - (IF "W" \in down THEN 1 ELSE 0))

\* normalize(v): v itself when its length is 0, v / length otherwise; for v
\* along an axis, the directions drawn here, that is the sign of each
\* component.
normalize(v) == IF Norm2(v) = 0 THEN v ELSE Vec(Sgn(v.x), Sgn(v.y))

\* A slip: the countdown is not held at zero when it runs out.
CountdownNoFloor(g, dt) ==
    IF g.timeLeft - dt <= 0
    THEN [g EXCEPT !.timeLeft = @ - dt, !.mode = "Lose"]
    ELSE [g EXCEPT !.timeLeft = @ - dt]

\* timeLeft -= dt; if (timeLeft <= 0.f) { timeLeft = 0.f; mode = Lose; }
Countdown(g, dt) ==
    IF g.timeLeft - dt <= 0
    THEN [g EXCEPT !.timeLeft = 0, !.mode = "Lose"]
    ELSE [g EXCEPT !.timeLeft = @ - dt]

\* The gameplay block: countdown, move, wall test, pickups, win test.
UpdateGameplay(g, down, dt, step) ==
    IF g.mode # "Playing" THEN g
    ELSE LET g1     == Countdown(g, dt)
             dir    == normalize(KeyDir(down))
             oldPos == g1.playerPos
             newPos == Vec(oldPos.x + dir.x * step, oldPos.y + dir.y * step)
             blocked == \E i \in 1..Len(g1.walls) :
                            circleIntersectsRect(newPos, PLAYER_RADIUS, g1.walls[i])
             g2     == [g1 EXCEPT !.playerPos = IF blocked THEN oldPos ELSE newPos]
             g3     == PickUpFrom(g2, 1)
         IN  IF circleIntersectsCircle(g3.playerPos, PLAYER_RADIUS,
                                       g3.targetPos, TARGET_RADIUS)
             THEN [g3 EXCEPT !.mode = "Win"]
             ELSE g3

\* The pass up to the drawing.  shown: what the pass goes on to display, the
\* menu, the world, or nothing (a continue out of the end screen controls).
Frame(g, down, dt, step) ==
    IF g.mode = "Menu"
    THEN [g |-> MenuKeys(g, down), shown |-> "menu"]
    ELSE LET c == EndScreenControls(g, down)
         IN  IF c.skip THEN [g |-> c.g, shown |-> "none"]
             ELSE [g |-> UpdateGameplay(EffectTimers(c.g, dt), down, dt, step),
                   shown |-> "world"]

\* ------------------------------------------------------------ drawing
\* window.draw(c); window.draw(t); for every active powerup (the circle and,
\* the font being loaded, its letter).
RECURSIVE PowerupDraws(_, _)
PowerupDraws(powerups, i) ==
    IF i > Len(powerups) THEN << >>
    ELSE (IF powerups[i].active
          THEN << DrawCall("window", "powerup", "default", << >>),
                  DrawCall("window", "letter", "default", << >>) >>
          ELSE << >>)
         \o PowerupDraws(powerups, i + 1)

\* Render WORLD: powerups, target, walls, player.
SceneDraws(g) ==
    PowerupDraws(g.powerups, 1)
    \o << DrawCall("window", "target", "default", << >>) >>
    \o [i \in 1..Len(g.walls) |-> DrawCall("window", "wall", "default", << >>)]
    \o << DrawCall("window", "player", "default", << >>) >>

\* drawArrowToTarget: the shaft and the head.
ArrowDraws(g) ==
    IF g.arrowLeft > 0 /\ g.mode = "Playing"
    THEN << DrawCall("window", "arrowLine", "default", << >>),
            DrawCall("window", "arrowHead", "default", << >>) >>
    ELSE << >>

\* A slip: the overlay is left out whenever Full Light has time left.
DarkUnlessLightLeft(g) == ~(g.fullLightLeft > 0)

\* !(fullLightLeft > 0.f && mode == GameMode::Playing)
Dark(g) == ~(g.fullLightLeft > 0 /\ g.mode = "Playing")

\* The UI texts, and on an end screen the centre text and the hint.
UIDraws(g) ==
    << DrawCall("window", "timerText", "default", << >>),
       DrawCall("window", "levelText", "default", << >>),
       DrawCall("window", "effectsText", "default", << >>) >>
    \o (IF g.mode \in {"Win", "Lose"}
        THEN << DrawCall("window", "centerText", "default", << >>),
                DrawCall("window", "hintText", "default", << >>) >>
        ELSE << >>)

MenuDraws ==
    << DrawCall("window", "titleText", "default", << >>),
       DrawCall("window", "menuList", "default", << >>),
       DrawCall("window", "menuHelp", "default", << >>) >>

\* A slip: the UI is drawn before the overlay.
WorldDrawsUIFirst(g, polyWorld) ==
    SceneDraws(g) \o ArrowDraws(g) \o UIDraws(g)
    \o OverlayDraws(Dark(g), FanWanted(polyWorld), << >>, << >>)

\* The draw calls of a pass that displays the world, from Render WORLD to
\* the UI.  polyScreen has one pixel for each point of polyWorld, so its
\* size is polyWorld's; the vertices of the two fans are left out here.
WorldDraws(g, polyWorld) ==
    SceneDraws(g) \o ArrowDraws(g)
    \o OverlayDraws(Dark(g), FanWanted(polyWorld), << >>, << >>)
    \o UIDraws(g)

\* ------------------------------------------------------------ state
VARIABLES
    origin,       \* computeVisibilityPolygon's parameter origin
    walls,        \* the rectangles segs was built from (empty: free segments);
                  \* in the main loop, main's walls
    segs,         \* computeVisibilityPolygon's parameter segs
    maxDist,      \* computeVisibilityPolygon's parameter maxDist
    hits,         \* the local hits after std::sort
    poly,         \* the polygon returned
    pc,           \* "call": inputs chosen; "done": the function has returned;
                  \* in the main loop origin .. poly are those of the pass's
                  \* call, and pc is "idle" after a pass that made none
    originScreen, \* the light's pixel
    polyScreen,   \* the polygon in pixels
    fanRange,     \* buildSoftFan_Screen's maxDist (LIGHT_RANGE in the overlay)
    tint,         \* buildSoftFan_Screen's tint
    fan,          \* the mesh buildSoftFan_Screen returned
    dark,         \* !(fullLightLeft > 0.f && mode == GameMode::Playing)
    fans,         \* the fans the overlay built
    draws,        \* the draw calls of the overlay, in order; in the main
                  \* loop, those of the whole pass
    fpc,          \* "call", "built" (the fan alone) or "composed" (the overlay)
    mode,         \* GameMode: "Menu", "Playing", "Win" or "Lose"
    currentLevel, \* 1-based
    menuSelection,
    timeLeft,
    speedBoostLeft,
    arrowLeft,
    fullLightLeft,
    wasW, wasS, wasEnter, wasM, wasR, wasN,   \* the key edge states
    playerPos,    \* getPlayerPos()
    targetPos,    \* getTargetPos()
    wallSegs,
    powerups,     \* the active powerups of the current level
    shown,        \* what the last pass displayed: "menu", "world" or "none"
    visCache      \* sorted hits of computeVisibilityPolygon worked out ahead,
                  \* by << origin, segs, maxDist >> (not a variable of main)

visVars == << origin, walls, segs, maxDist, hits, poly, pc >>

fanVars == << originScreen, polyScreen, fanRange, tint, fan, dark, fans, draws, fpc >>

gameVars == << mode, currentLevel, menuSelection, timeLeft, speedBoostLeft,
               arrowLeft, fullLightLeft, wasW, wasS, wasEnter, wasM, wasR, wasN,
               playerPos, targetPos, wallSegs, powerups, shown, visCache >>

vars == << origin, walls, segs, maxDist, hits, poly, pc,
           originScreen, polyScreen, fanRange, tint, fan, dark, fans, draws, fpc,
           mode, currentLevel, menuSelection, timeLeft, speedBoostLeft,
           arrowLeft, fullLightLeft, wasW, wasS, wasEnter, wasM, wasR, wasN,
           playerPos, targetPos, wallSegs, powerups, shown, visCache >>

\* ------------------------------------------------------------ inputs
Coords == 0..GridMax

Points == {Vec(x, y) : x \in Coords, y \in Coords}

\* Any segment of the grid, degenerate ones included.
FreeSegs == {Seg(a, b) : a \in Points, b \in Points}

\* Wall edges: axis-aligned segments of positive length, either way round.
EdgeSegs == {s \in FreeSegs : (s.a.x = s.b.x) # (s.a.y = s.b.y)}

\* Upward vertical edges, and rightward horizontal ones.
UpSegs == {s \in EdgeSegs : s.a.x = s.b.x /\ s.a.y < s.b.y}

RightSegs == {s \in EdgeSegs : s.a.y = s.b.y /\ s.a.x < s.b.x}

\* Axis-aligned rectangles of positive size inside the grid.
Rects ==
    {Rect(x, y, w, h) : x \in Coords, y \in Coords, w \in 1..GridMax, h \in 1..GridMax}

GridRects == {r \in Rects : r.x + r.w <= GridMax /\ r.y + r.h <= GridMax}

\* The segment lists the function is called with: none, one free segment,
\* two wall edges, or the edges of one wall.
FreeSegLists ==
    {<< >>} \cup {<< s >> : s \in FreeSegs}
            \cup {<< s1, s2 >> : s1 \in UpSegs \cup RightSegs, s2 \in UpSegs}

WallLists == {<< r >> : r \in GridRects}

\* The pixels polygons are drawn from: at the light, at distance 5 from it,
\* and just inside, on and just outside the circle of radius FanRange.
FanPoints ==
    {Vec(0, 0), Vec(3, 4),
     Vec(FanRange - 1, 0), Vec(FanRange, 0), Vec(0, FanRange + 1)}

RECURSIVE SeqsUpTo(_, _)
SeqsUpTo(S, n) ==
    IF n = 0 THEN {<< >>}
    ELSE SeqsUpTo(S, n - 1)
         \cup {Append(q, x) : q \in {r \in SeqsUpTo(S, n - 1) : Len(r) = n - 1}, x \in S}

Tints == {Color(255, 255, 255, 255), WARM_TINT, Color(255, 190, 140, 120)}

\* The part of the state a specification does not use.
VisIdle ==
    /\ origin = Vec(0, 0)
    /\ walls = << >>
    /\ segs = << >>
    /\ maxDist = 1
    /\ hits = << >>
    /\ poly = << >>
    /\ pc = "idle"

FanIdle ==
    /\ originScreen = Vec(0, 0)
    /\ polyScreen = << >>
    /\ fanRange = 1
    /\ tint = WARM_TINT
    /\ fan = << >>
    /\ dark = TRUE
    /\ fans = << >>
    /\ draws = << >>
    /\ fpc = "idle"

\* main's variables when the loop is entered: the menu, level 1 named but
\* not loaded, no walls, no powerups, the sprites at the origin.
GameIdle ==
    /\ mode = "Menu"
    /\ currentLevel = 1
    /\ menuSelection = 1
    /\ timeLeft = LEVEL_TIME_LIMIT
    /\ speedBoostLeft = 0
    /\ arrowLeft = 0
    /\ fullLightLeft = 0
    /\ wasW = FALSE /\ wasS = FALSE /\ wasEnter = FALSE
    /\ wasM = FALSE /\ wasR = FALSE /\ wasN = FALSE
    /\ playerPos = Vec(0, 0)
    /\ targetPos = Vec(0, 0)
    /\ wallSegs = << >>
    /\ powerups = << >>
    /\ shown = "none"

\* ------------------------------------------------------------ VisSpec
VisInit ==
    /\ origin \in Points
    /\ maxDist \in 1..MaxRange
    /\ \/ walls = << >> /\ segs \in FreeSegLists
       \/ walls \in WallLists /\ segs = buildWallSegments(walls)
    /\ hits = << >>
    /\ poly = << >>
    /\ pc = "call"
    /\ FanIdle
    /\ GameIdle
    /\ visCache = << >>

\* One call of computeVisibilityPolygon(origin, segs, maxDist).
VisCall ==
    /\ pc = "call"
    /\ hits' = VisibilityHits(origin, segs, maxDist)
    /\ poly' = PolyOf(hits')
    /\ pc' = "done"
    /\ UNCHANGED << origin, walls, segs, maxDist >>
    /\ UNCHANGED fanVars
    /\ UNCHANGED gameVars

VisNext == VisCall

VisSpec == VisInit /\ [][VisNext]_vars

\* ------------------------------------------------------------ WallSpec
\* buildWallSegments on lists of up to MaxWalls walls that may coincide,
\* overlap or share an edge.
NearRects == {Rect(x, y, w, h) : x \in 0..1, y \in 0..1, w \in 1..2, h \in 1..2}

WallInit ==
    /\ origin = Vec(0, 0)
    /\ walls \in SeqsUpTo(NearRects, MaxWalls)
    /\ segs = << >>
    /\ maxDist = 1
    /\ hits = << >>
    /\ poly = << >>
    /\ pc = "build"
    /\ FanIdle
    /\ GameIdle
    /\ visCache = << >>

\* One call of buildWallSegments(walls).
WallCall ==
    /\ pc = "build"
    /\ segs' = buildWallSegments(walls)
    /\ pc' = "built"
    /\ UNCHANGED << origin, walls, maxDist, hits, poly >>
    /\ UNCHANGED fanVars
    /\ UNCHANGED gameVars

WallNext == WallCall

WallSpec == WallInit /\ [][WallNext]_vars

\* ------------------------------------------------------------ FanSpec
FanInit ==
    /\ VisIdle
    /\ GameIdle
    /\ visCache = << >>
    /\ originScreen \in {Vec(0, 0), Vec(1, 0)}
    /\ polyScreen \in SeqsUpTo(FanPoints, MaxPoly)
    /\ fanRange \in {5, FanRange}
    /\ tint \in Tints
    /\ fan = << >>
    /\ dark \in BOOLEAN
    /\ fans = << >>
    /\ draws = << >>
    /\ fpc = "call"

\* One call of buildSoftFan_Screen(originScreen, polyScreen, maxDist, tint).
FanCall ==
    /\ fpc = "call"
    /\ fan' = buildSoftFan_Screen(originScreen, polyScreen, fanRange, tint)
    /\ fpc' = "built"
    /\ UNCHANGED << originScreen, polyScreen, fanRange, tint, dark, fans, draws >>
    /\ UNCHANGED visVars
    /\ UNCHANGED gameVars

\* The darkness overlay of one frame on the polygon polyScreen.
Compose ==
    /\ fpc = "call"
    /\ LET o == DarknessOverlay(dark, originScreen, polyScreen, fanRange)
       IN  draws' = o.draws /\ fans' = o.fans
    /\ fpc' = "composed"
    /\ UNCHANGED << originScreen, polyScreen, fanRange, tint, fan, dark >>
    /\ UNCHANGED visVars
    /\ UNCHANGED gameVars

FanNext == FanCall \/ Compose

FanSpec == FanInit /\ [][FanNext]_vars

\* ------------------------------------------------------------ Spec
\* The main loop, one pass at a time, the window staying open.
\* The calls of computeVisibilityPolygon the loop can make: from a point of
\* a corridor, on the segments of a level, with LIGHT_RANGE.
CorridorPoints ==
    UNION {{Vec(x, 0) : x \in 0..levels[i].worldW} : i \in 1..MaxLevel}

LevelSegs == {buildWallSegments(levels[i].wallRects) : i \in 1..MaxLevel}

VisCalls == {<< p, s, Units(LIGHT_RANGE) >> : p \in CorridorPoints, s \in LevelSegs}

\* The sorted hits of computeVisibilityPolygon(origin, segs, maxDist), taken
\* from visCache where the call is worked out there.
CachedVisibilityHits(o, s, m) ==
    IF << o, s, m >> \in DOMAIN visCache
    THEN visCache[<< o, s, m >>]
    ELSE VisibilityHits(o, s, m)

Init ==
    /\ VisIdle
    /\ FanIdle
    /\ GameIdle
    /\ visCache = [c \in VisCalls |-> VisibilityHits(c[1], c[2], c[3])]

\* main's variables as one record.
Game ==
    [mode |-> mode, currentLevel |-> currentLevel, menuSelection |-> menuSelection,
     timeLeft |-> timeLeft, speedBoostLeft |-> speedBoostLeft,
     arrowLeft |-> arrowLeft, fullLightLeft |-> fullLightLeft,
     wasW |-> wasW, wasS |-> wasS, wasEnter |-> wasEnter,
     wasM |-> wasM, wasR |-> wasR, wasN |-> wasN,
     playerPos |-> playerPos, targetPos |-> targetPos,
     walls |-> walls, wallSegs |-> wallSegs, powerups |-> powerups]

SetGame(g) ==
    /\ mode' = g.mode
    /\ currentLevel' = g.currentLevel
    /\ menuSelection' = g.menuSelection
    /\ timeLeft' = g.timeLeft
    /\ speedBoostLeft' = g.speedBoostLeft
    /\ arrowLeft' = g.arrowLeft
    /\ fullLightLeft' = g.fullLightLeft
    /\ wasW' = g.wasW /\ wasS' = g.wasS /\ wasEnter' = g.wasEnter
    /\ wasM' = g.wasM /\ wasR' = g.wasR /\ wasN' = g.wasN
    /\ playerPos' = g.playerPos
    /\ targetPos' = g.targetPos
    /\ walls' = g.walls
    /\ wallSegs' = g.wallSegs
    /\ powerups' = g.powerups

\* The keys polled, and the sets of keys held down in one pass: one key at
\* most.
Keys == {"W", "S", "A", "D", "Enter", "M", "R", "N"}

KeySets == {{}} \cup {{k} : k \in Keys}

\* dt: a pass within the second, a slow pass, a pass that outlasts a level.
Dts == {0, FrameDt, LEVEL_TIME_LIMIT}

\* The moves speed * dt: none without a movement key or in no time, else
\* 1..MaxStep units.
Steps(down, dt) ==
    IF down \cap {"W", "S", "A", "D"} = {} \/ dt = 0 THEN {0} ELSE 1..MaxStep

\* The player stays inside the world of the level (no wall is met outside).
InWorld(p, L) == p.x \in 0..L.worldW /\ p.y \in 0..L.worldH

\* One pass of the loop with the keys down held, dt and step: f is the pass
\* up to the drawing, h the sorted hits of its visibility call if it makes
\* one.
Pass(down, dt, step) ==
    \E f \in {Frame(Game, down, dt, step)} :
    /\ InWorld(f.g.playerPos, levels[f.g.currentLevel])
    /\ \E h \in {IF f.shown = "world" /\ Dark(f.g)
                  THEN CachedVisibilityHits(f.g.playerPos, f.g.wallSegs,
                                            Units(LIGHT_RANGE))
                  ELSE << >>} :
        /\ SetGame(f.g)
        /\ shown' = f.shown
        /\ IF f.shown = "world" /\ Dark(f.g)
           THEN /\ origin' = f.g.playerPos
                /\ segs' = f.g.wallSegs
                /\ maxDist' = Units(LIGHT_RANGE)
                /\ pc' = "done"
           ELSE /\ origin' = Vec(0, 0)
                /\ segs' = << >>
                /\ maxDist' = 1
                /\ pc' = "idle"
        /\ hits' = h
        /\ poly' = PolyOf(h)
        /\ dark' = (f.shown = "world" => Dark(f.g))
        /\ draws' = IF f.shown = "menu" THEN MenuDraws
                    ELSE IF f.shown = "world" THEN WorldDraws(f.g, PolyOf(h))
                    ELSE << >>
        /\ UNCHANGED << originScreen, polyScreen, fanRange, tint, fan, fans, fpc,
                        visCache >>

\* A pass that finds the menu.
MenuFrame ==
    /\ mode = "Menu"
    /\ \E down \in KeySets : Pass(down, 0, 0)

\* A pass that finds an end screen.
EndScreenFrame ==
    /\ mode \in {"Win", "Lose"}
    /\ \E down \in KeySets : \E dt \in Dts : \E step \in Steps(down, dt) :
           Pass(down, dt, step)

\* A pass that finds the level being played.
PlayingFrame ==
    /\ mode = "Playing"
    /\ \E down \in KeySets : \E dt \in Dts : \E step \in Steps(down, dt) :
           Pass(down, dt, step)

Next == MenuFrame \/ EndScreenFrame \/ PlayingFrame

Spec == Init /\ [][Next]_vars

\* ------------------------------------------------------------ claims
\* The intersection of the ray of hits[i] with segs[j], as the function
\* computes it.
RayHit(i, j) ==
    raySegmentIntersect(origin, hits[i].angle, segs[j].a,
                        Sub(segs[j].b, segs[j].a))

\* The sign of t - distance(origin, v) for a ray parameter t along the ray
\* of the vertex v.
TCmpVertex(h, v) ==
    IF v.far THEN TCmpDist(h, v.ang, v.m) ELSE TCmp(h, v)

\* C1: for every vertex v of the returned polygon, no segment is
\* intersected by the ray from origin towards v at a ray parameter strictly
\* smaller than the distance from origin to v; the vertex of a sampled angle
\* is the intersection of minimum t among those with 0 <= t <= maxDist, and
\* the range point only when there is none.
C1_NearestHit ==
    pc = "done" =>
        \A i \in 1..Len(hits) :
            LET v == hits[i].p
                inRange == {j \in 1..Len(segs) :
                               RayHit(i, j).hit
                               /\ TCmpDist(RayHit(i, j), hits[i].angle, maxDist) <= 0}
            IN  /\ \A j \in 1..Len(segs) :
                       RayHit(i, j).hit => TCmpVertex(RayHit(i, j), v) >= 0
                /\ v.far <=> inRange = {}
                /\ ~v.far => \E j \in inRange : TCmp(RayHit(i, j), v) = 0

\* A ray crosses two segments within maxDist, the farther one first in segs.
C1_Witness ==
    /\ pc = "done"
    /\ \E i \in 1..Len(hits) : \E j1 \in 1..Len(segs) : \E j2 \in 1..Len(segs) :
           /\ j1 < j2
           /\ RayHit(i, j1).hit /\ RayHit(i, j2).hit
           /\ TCmpDist(RayHit(i, j1), hits[i].angle, maxDist) <= 0
           /\ TCmp(RayHit(i, j2), RayHit(i, j1)) < 0
           /\ TCmp(RayHit(i, j2), hits[i].p) = 0

\* C2: every vertex of the returned polygon lies at distance at most
\* maxDist from origin.
C2_WithinRange ==
    pc = "done" =>
        \A i \in 1..Len(poly) :
            /\ poly[i].o = origin
            /\ IF poly[i].far THEN poly[i].m <= maxDist
               ELSE TCmpDist(poly[i], poly[i].ang, maxDist) <= 0

\* A ray crosses a segment beyond maxDist, and its vertex is the range point.
C2_Witness ==
    /\ pc = "done"
    /\ \E i \in 1..Len(hits) : \E j \in 1..Len(segs) :
           /\ RayHit(i, j).hit
           /\ TCmpDist(RayHit(i, j), hits[i].angle, maxDist) > 0
           /\ hits[i].p.far

\* How often x occurs in the sequence s.
Count(s, x) == Cardinality({i \in 1..Len(s) : s[i] = x})

\* C3: the returned polygon has exactly as many points as angle samples, 6
\* per segment, and every sampled angle has its vertices, whether or not its
\* ray strikes a segment.
C3_OnePointPerSample ==
    pc = "done" =>
        LET angles == SampleAngles(origin, segs)
        IN  /\ Len(poly) = 6 * Len(segs)
            /\ Len(poly) = Len(angles)
            /\ \A i \in 1..Len(angles) :
                   Count([n \in 1..Len(hits) |-> hits[n].angle], angles[i])
                       = Count(angles, angles[i])

\* A call with segments where one ray strikes a segment and another none.
C3_Witness ==
    /\ pc = "done"
    /\ segs # << >>
    /\ \E i \in 1..Len(hits) : hits[i].p.far /\ \A j \in 1..Len(segs) : ~RayHit(i, j).hit
    /\ \E i \in 1..Len(hits) : ~hits[i].p.far

\* C4: a call with an empty segment list returns a polygon of at least 3
\* points, all at distance maxDist from origin.
C4_EmptyListGivesCircle ==
    (pc = "done" /\ segs = << >>) =>
        /\ Len(poly) >= 3
        /\ \A i \in 1..Len(poly) : poly[i].far /\ poly[i].m = maxDist

\* C5: the vertex of a sampled angle whose ray strikes no segment at a
\* parameter in [0, maxDist] is origin + maxDist * (cos(angle), sin(angle)).
C5_RangeFallback ==
    pc = "done" =>
        \A i \in 1..Len(hits) :
            (\A j \in 1..Len(segs) :
                 RayHit(i, j).hit => TCmpDist(RayHit(i, j), hits[i].angle, maxDist) > 0)
            => /\ hits[i].p.far
               /\ hits[i].p.o = origin
               /\ hits[i].p.ang = hits[i].angle
               /\ hits[i].p.m = maxDist

\* Two rays fall back: one whose every intersection lies beyond maxDist and
\* one that crosses no segment at all.
C5_Witness ==
    /\ pc = "done"
    /\ \E i \in 1..Len(hits) :
           /\ hits[i].p.far
           /\ \E j \in 1..Len(segs) : RayHit(i, j).hit
    /\ \E i \in 1..Len(hits) :
           /\ hits[i].p.far
           /\ \A j \in 1..Len(segs) : ~RayHit(i, j).hit

\* -pi <= a <= pi for a sampled angle a = atan2(d) + k*eps:
\* a > pi needs k = 1 and atan2(d) > pi - eps, a < -pi needs k = -1 and
\* atan2(d) < -pi + eps.
WithinPi(a) ==
    /\ ~(/\ a.k = 1
         /\ a.d.x < 0 /\ a.d.y >= 0
         /\ EpsDen * a.d.y < EpsNum * (0 - a.d.x))
    /\ ~(/\ a.k = 0 - 1
         /\ a.d.x < 0 /\ a.d.y < 0
         /\ EpsDen * (0 - a.d.y) < EpsNum * (0 - a.d.x))

\* C6: the vertices are ordered by non-decreasing sampled angle, and every
\* sampled angle lies between -pi and pi.
C6_SortedWithinPi ==
    pc = "done" =>
        /\ \A i \in 1..Len(hits) : \A j \in 1..Len(hits) :
               i < j => AngCmp(hits[i].angle, hits[j].angle) <= 0
        /\ \A i \in 1..Len(hits) : WithinPi(hits[i].angle)

\* The endpoint the n-th sample triple was made for (two triples a segment).
TripleEnd(n) ==
    LET s == segs[(n + 1) \div 2] IN IF n % 2 = 1 THEN s.a ELSE s.b

\* The angle at the centre of the n-th sample triple.
TripleAngle(angles, n) == angles[3 * n - 1]

\* Two endpoints lie in the same direction from origin (atan2 takes origin
\* itself as the direction of the positive x axis).
SameDirection(p, q) ==
    LET u == IF p = origin THEN Vec(1, 0) ELSE Sub(p, origin)
        v == IF q = origin THEN Vec(1, 0) ELSE Sub(q, origin)
    IN  cross2(u, v) = 0 /\ Dot(u, v) > 0

\* C7 as stated: for a segment list made by buildWallSegments, no two
\* distinct sample triples carry the same angle values.
C7_NoDuplicateTriples ==
    (pc = "done" /\ segs = buildWallSegments(walls)) =>
        LET angles == SampleAngles(origin, segs)
        IN  \A n1 \in 1..(2 * Len(segs)) : \A n2 \in 1..(2 * Len(segs)) :
                n1 # n2 => TripleAngle(angles, n1) # TripleAngle(angles, n2)

\* C7 amended: for a segment list made by buildWallSegments the samples are
\* one triple (angle - eps, angle, angle + eps) for each endpoint of each
\* segment, 8 triples a rectangle; two triples carry the same angle values
\* exactly when their endpoints lie in the same direction from origin, and
\* every corner of a rectangle, the end of one edge and the start of the
\* next, has its triple at least twice.
C7_TriplesPerEndpoint ==
    (pc = "done" /\ segs = buildWallSegments(walls)) =>
        LET angles == SampleAngles(origin, segs)
            N == 2 * Len(segs)
        IN  /\ Len(angles) = 24 * Len(walls)
            /\ \A n \in 1..N :
                   /\ angles[3 * n - 2] = Ang(TripleAngle(angles, n).d, 0 - 1)
                   /\ TripleAngle(angles, n).k = 0
                   /\ angles[3 * n] = Ang(TripleAngle(angles, n).d, 1)
                   /\ SameDirection(TripleEnd(n),
                          Vec(origin.x + TripleAngle(angles, n).d.x,
                              origin.y + TripleAngle(angles, n).d.y))
            /\ \A n1 \in 1..N : \A n2 \in 1..N :
                   (TripleAngle(angles, n1) = TripleAngle(angles, n2))
                       <=> SameDirection(TripleEnd(n1), TripleEnd(n2))
            /\ \A n1 \in 1..N : \E n2 \in 1..N :
                   n2 # n1 /\ TripleEnd(n2) = TripleEnd(n1)
                   /\ TripleAngle(angles, n2) = TripleAngle(angles, n1)

\* A call on the edges of a wall where two different corners lie in the same
\* direction from origin and a third does not.
C7_Witness ==
    /\ pc = "done"
    /\ walls # << >>
    /\ segs = buildWallSegments(walls)
    /\ \E n1 \in 1..(2 * Len(segs)) : \E n2 \in 1..(2 * Len(segs)) :
           /\ TripleEnd(n1) # TripleEnd(n2)
           /\ SameDirection(TripleEnd(n1), TripleEnd(n2))
    /\ \E n1 \in 1..(2 * Len(segs)) : \E n2 \in 1..(2 * Len(segs)) :
           ~SameDirection(TripleEnd(n1), TripleEnd(n2))

\* The fan holds the vertex of polyScreen[n] at place i: its position, the
\* tint's red, green and blue.
IsFanPoint(i, n) ==
    /\ fan[i].position = polyScreen[n]
    /\ fan[i].color.r = tint.r /\ fan[i].color.g = tint.g /\ fan[i].color.b = tint.b

\* C8 as stated: for every polygon of N >= 0 points the fan has exactly
\* N + 2 vertices: the centre, the N points in input order, the first point
\* again.
C8_AlwaysNPlus2 ==
    fpc = "built" =>
        /\ Len(fan) = Len(polyScreen) + 2
        /\ fan[1].position = originScreen
        /\ \A n \in 1..Len(polyScreen) : IsFanPoint(n + 1, n)

\* C8 amended: for every polygon of N >= 1 points the fan has exactly N + 2
\* vertices in the order centre, the N points in input order, then the first
\* point again with the same position and alpha; for N = 0 the fan is the
\* centre vertex alone.
C8_FanLayout ==
    fpc = "built" =>
        LET N == Len(polyScreen)
        IN  /\ fan[1].position = originScreen
            /\ \A n \in 1..N : IsFanPoint(n + 1, n)
            /\ N >= 1 => /\ Len(fan) = N + 2
                         /\ IsFanPoint(N + 2, 1)
                         /\ fan[N + 2] = fan[2]
            /\ N = 0 => Len(fan) = 1

\* A fan of a polygon whose last point differs from its first.
C8_Witness ==
    /\ fpc = "built"
    /\ Len(polyScreen) >= 2
    /\ polyScreen[Len(polyScreen)] # polyScreen[1]

\* The squared distance of the fan's vertex i from the centre.
FanDist2(i) ==
    Norm2(Sub(fan[i].position, originScreen))

\* a is 255 * (1 - dist/fanRange) truncated, for dist = sqrt(dist2) below
\* fanRange: a <= 255 * (1 - dist/fanRange) < a + 1, in squares.
IsTruncatedFalloff(a, dist2) ==
    /\ a \in 0..255
    /\ 255 * 255 * dist2 <= (255 - a) * (255 - a) * fanRange * fanRange
    /\ a < 255 => 255 * 255 * dist2 > (254 - a) * (254 - a) * fanRange * fanRange

\* C9: the centre vertex has alpha 255; every other vertex has alpha in
\* 25..255, equal to max(25, 255 * clamp(1 - dist/maxDist, 0, 1)) truncated;
\* a vertex at or beyond maxDist has alpha exactly 25.
C9_AlphaFalloff ==
    fpc = "built" =>
        /\ fan[1].color.a = 255
        /\ \A i \in 2..Len(fan) :
               LET a == fan[i].color.a
               IN  /\ a \in 25..255
                   /\ FanDist2(i) >= fanRange * fanRange => a = 25
                   /\ FanDist2(i) < fanRange * fanRange =>
                          \/ a > 25 /\ IsTruncatedFalloff(a, FanDist2(i))
                          \/ a = 25 /\ \E b \in 0..25 : IsTruncatedFalloff(b, FanDist2(i))

\* A fan with a vertex beyond the range, one inside it whose falloff is
\* below 25, and one whose falloff is above.
C9_Witness ==
    /\ fpc = "built"
    /\ \E i \in 2..Len(fan) : FanDist2(i) > fanRange * fanRange
    /\ \E i \in 2..Len(fan) :
           /\ FanDist2(i) < fanRange * fanRange
           /\ \E b \in 0..24 : IsTruncatedFalloff(b, FanDist2(i))
    /\ \E i \in 2..Len(fan) : fan[i].color.a \in 26..254

\* C10: when the overlay is drawn on a polygon of 0, 1 or 2 points, no fan
\* is built and no fan is drawn on either target; the darkness layer is
\* still filled and composited onto the window.
C10_NoFanBelowThree ==
    (fpc = "composed" /\ dark /\ Len(polyScreen) < 3) =>
        /\ fans = << >>
        /\ \A i \in 1..Len(draws) : draws[i].what \notin {"eraseFan", "glowFan"}
        /\ draws = << DrawCall("darknessRT", "darknessRect", "default", << >>),
                      DrawCall("window", "darknessRT", "default", << >>) >>

\* The overlay was drawn on a polygon of two points.
C10_Witness ==
    /\ fpc = "composed"
    /\ dark
    /\ Len(polyScreen) = 2
    /\ Len(draws) = 2

\* The place of a draw call in the order of a pass that displays the world.
PassRank(d) ==
    IF d.what \in {"powerup", "letter"} THEN 1
    ELSE IF d.what = "target" THEN 2
    ELSE IF d.what = "wall" THEN 3
    ELSE IF d.what = "player" THEN 4
    ELSE IF d.what \in {"arrowLine", "arrowHead"} THEN 5
    ELSE IF d.what = "darknessRect" THEN 6
    ELSE IF d.what = "eraseFan" THEN 7
    ELSE IF d.what = "darknessRT" THEN 8
    ELSE IF d.what = "glowFan" THEN 9
    ELSE IF d.what \in {"timerText", "levelText", "effectsText",
                        "centerText", "hintText"} THEN 10
    ELSE 0

RankCount(r) == Cardinality({i \in 1..Len(draws) : PassRank(draws[i]) = r})

\* C11: in a pass that displays the world with the darkness overlay, the
\* draw calls come in this order: the scene on the window (powerups, target,
\* walls, player, and the arrow if it is shown), darknessRect into
\* darknessRT, the erase fan into darknessRT with ERASE_BLEND, darknessRT
\* onto the window, the glow fan onto the window with ADD_GLOW, the UI texts;
\* each of the four overlay calls is made once, and nothing follows the UI.
C11_PassOrder ==
    (shown = "world" /\ dark) =>
        /\ \A i \in 1..Len(draws) : PassRank(draws[i]) > 0
        /\ \A i \in 1..Len(draws) : \A j \in 1..Len(draws) :
               i < j => PassRank(draws[i]) <= PassRank(draws[j])
        /\ \A r \in {2, 4, 6, 7, 8, 9} : RankCount(r) = 1
        /\ RankCount(3) = Len(walls) /\ RankCount(10) >= 3
        /\ \A i \in 1..Len(draws) :
               /\ draws[i].target = (IF PassRank(draws[i]) \in {6, 7}
                                     THEN "darknessRT" ELSE "window")
               /\ draws[i].blend = (IF PassRank(draws[i]) = 7 THEN "ERASE_BLEND"
                                    ELSE IF PassRank(draws[i]) = 9 THEN "ADD_GLOW"
                                    ELSE "default")

\* A won level displayed in the dark with a powerup still lying there.
C11_Witness ==
    /\ shown = "world" /\ dark /\ mode = "Win"
    /\ RankCount(1) > 0 /\ RankCount(7) = 1 /\ RankCount(10) = 5

\* The segments of the level that currentLevel names.
CurrentLevelSegs == buildWallSegments(levels[currentLevel].wallRects)

\* C12: at every call of computeVisibilityPolygon in the main loop the
\* segment list passed in is wallSegs and equals buildWallSegments of the
\* walls of levels[currentLevel - 1] (levels[currentLevel] here, sequences
\* being counted from 1); it is never the empty list main starts with nor
\* the list of another level, and whenever the world is displayed wallSegs
\* and walls are those of the current level.
C12_SegmentsOfCurrentLevel ==
    /\ pc = "done" =>
           /\ segs = wallSegs
           /\ segs = CurrentLevelSegs
           /\ segs # << >>
    /\ mode # "Menu" =>
           /\ wallSegs = CurrentLevelSegs
           /\ walls = levels[currentLevel].wallRects
    /\ wallSegs \in {<< >>} \cup LevelSegs

\* Visibility was computed on level 2, whose wall differs from level 1's.
C12_Witness ==
    /\ pc = "done"
    /\ currentLevel = 2
    /\ mode = "Playing"
    /\ segs = buildWallSegments(levels[2].wallRects)
    /\ segs # buildWallSegments(levels[1].wallRects)

\* The direction of the float angle ang as a vector of integers: d turned
\* by k*eps and scaled, EpsDen*d + k*EpsNum*Perp(d).
RayDir(ang) ==
    Vec(EpsDen * ang.d.x - ang.k * EpsNum * ang.d.y,
        EpsDen * ang.d.y + ang.k * EpsNum * ang.d.x)

\* cross(r, s), cross(q - p, s) and cross(q - p, r) for the ray of hits[i]
\* and segs[j], r scaled to RayDir: rxs and u's numerator are scaled by
\* |RayDir|, which leaves the signs, u and t * rxs as they are.
RayCross(i, j) ==
    LET D   == RayDir(hits[i].angle)
        s   == Sub(segs[j].b, segs[j].a)
        qmp == Sub(segs[j].a, origin)
    IN  [rxs |-> cross2(D, s), tN |-> cross2(qmp, s), uN |-> cross2(qmp, D)]

\* C13: raySegmentIntersect(p, r, q, s) reports a hit exactly when
\* cross(r, s) is not (nearly) zero and t = cross(q-p, s) / cross(r, s),
\* u = cross(q-p, r) / cross(r, s) satisfy t >= 0 and 0 <= u <= 1, u = 0 and
\* u = 1 included; on a hit tHit is t; on a miss nothing is written, the
\* result carrying no value that depends on the inputs.
C13_HitCondition ==
    pc = "done" =>
        \A i \in 1..Len(hits) : \A j \in 1..Len(segs) :
            LET c  == RayCross(i, j)
                sg == Sgn(c.rxs)
                h  == RayHit(i, j)
            IN  /\ h.hit <=> /\ c.rxs # 0
                              /\ c.tN * sg >= 0
                              /\ c.uN * sg >= 0
                              /\ c.uN * sg <= c.rxs * sg
                /\ h.hit => /\ h.r1 * EpsDen + h.r0 > 0
                            /\ h.tn >= 0
                            /\ h.tn * c.rxs * sg = c.tN * sg * (h.r1 * EpsDen + h.r0)
                /\ ~h.hit => h = NoHit

\* One call in which a ray strikes a segment at its start (u = 0), a ray
\* strikes one at its end (u = 1), a ray runs along a parallel segment, a
\* ray has a segment's line behind it (t < 0), and a ray passes a segment's
\* line beside the segment (u > 1).
C13_Witness ==
    /\ pc = "done"
    /\ \E i \in 1..Len(hits) : \E j \in 1..Len(segs) :
           RayHit(i, j).hit /\ RayCross(i, j).uN = 0
    /\ \E i \in 1..Len(hits) : \E j \in 1..Len(segs) :
           RayHit(i, j).hit /\ RayCross(i, j).uN = RayCross(i, j).rxs
    /\ \E i \in 1..Len(hits) : \E j \in 1..Len(segs) :
           ~RayHit(i, j).hit /\ RayCross(i, j).rxs = 0
    /\ \E i \in 1..Len(hits) : \E j \in 1..Len(segs) :
           /\ ~RayHit(i, j).hit /\ RayCross(i, j).rxs # 0
           /\ RayCross(i, j).tN * Sgn(RayCross(i, j).rxs) < 0
    /\ \E i \in 1..Len(hits) : \E j \in 1..Len(segs) :
           /\ ~RayHit(i, j).hit /\ RayCross(i, j).rxs # 0
           /\ RayCross(i, j).tN * Sgn(RayCross(i, j).rxs) >= 0
           /\ RayCross(i, j).uN * Sgn(RayCross(i, j).rxs)
                  > RayCross(i, j).rxs * Sgn(RayCross(i, j).rxs)

\* C14: buildWallSegments returns 4 segments per wall, the walls in input
\* order and the edges of each in the order top, right, bottom, left, each
\* edge ending where the next one starts and the left edge ending where the
\* top one starts; an edge that another wall has already given is given
\* again.
C14_FourEdgesInOrder ==
    pc = "built" =>
        /\ Len(segs) = 4 * Len(walls)
        /\ \A i \in 1..Len(walls) :
               LET b == walls[i]
                   k == 4 * (i - 1)
               IN  /\ segs[k + 1] = Seg(Vec(b.x, b.y), Vec(b.x + b.w, b.y))
                   /\ segs[k + 2] = Seg(Vec(b.x + b.w, b.y), Vec(b.x + b.w, b.y + b.h))
                   /\ segs[k + 3] = Seg(Vec(b.x + b.w, b.y + b.h), Vec(b.x, b.y + b.h))
                   /\ segs[k + 4] = Seg(Vec(b.x, b.y + b.h), Vec(b.x, b.y))
                   /\ \A n \in 1..4 : segs[k + n].b = segs[k + (n % 4) + 1].a

\* Two different walls with the same top edge, the taller one first: the
\* edge is given twice, and the list has all 8 edges.
C14_Witness ==
    /\ pc = "built"
    /\ Len(walls) = 2
    /\ walls[1] # walls[2]
    /\ walls[1].h > walls[2].h
    /\ segs[1] = segs[5]
    /\ Len(segs) = 8

\* The erase fan of the overlay just composed: the mesh of the second draw
\* call.
EraseFanDrawn ==
    /\ fpc = "composed"
    /\ Len(draws) >= 2
    /\ draws[2].what = "eraseFan"

\* C15: the erase pass scales the darkness layer by 1 - src.alpha and adds
\* no source term.  At a pixel the erase fan covers, the layer is black
\* with alpha DARK_ALPHA before the pass; after it the alpha is at most
\* that, 0 where the fan's alpha is 255 (the light centre) and above 0
\* where the fan's alpha is at its floor MinAlpha, and the white of the fan
\* leaves the colour channels at 0.  Whatever the layer and the fan alpha,
\* no channel is raised.
C15_EraseOnlyLowers ==
    EraseFanDrawn =>
        /\ draws[2].target = "darknessRT" /\ draws[2].blend = "ERASE_BLEND"
        /\ \A v \in 1..Len(draws[2].mesh) :
               LET before == DarknessLayer(draws, 1, v)
                   after  == DarknessLayer(draws, 2, v)
                   a      == draws[2].mesh[v].color.a
               IN  /\ before = Color(0, 0, 0, DARK_ALPHA)
                   /\ after.a <= before.a
                   /\ a = 255 => after.a = 0
                   /\ a = MinAlpha => after.a > 0
                   /\ after.r = 0 /\ after.g = 0 /\ after.b = 0
                   /\ after = DarknessLayer(draws, Len(draws), v)
        /\ \A d \in {0, 1, DARK_ALPHA, 255} : \A a \in {0, 1, MinAlpha, 254, 255} :
               LET dst == Color(d, 255 - d, 255, d)
                   res == Blend(BlendOf(draws[2].blend), Color(255, 255, 255, a), dst)
               IN  /\ res.r <= dst.r /\ res.g <= dst.g
                   /\ res.b <= dst.b /\ res.a <= dst.a

\* An erase fan with a vertex at the floor, where the layer keeps most of
\* its alpha, and one between the floor and 255.
C15_Witness ==
    /\ EraseFanDrawn
    /\ draws[2].mesh[1].color.a = 255
    /\ DarknessLayer(draws, 2, 1).a = 0
    /\ \E v \in 1..Len(draws[2].mesh) :
           /\ draws[2].mesh[v].color.a = MinAlpha
           /\ DarknessLayer(draws, 2, v).a = 225
    /\ \E v \in 1..Len(draws[2].mesh) :
           /\ draws[2].mesh[v].color.a \in (MinAlpha + 1)..254
           /\ DarknessLayer(draws, 2, v).a \in 1..(DARK_ALPHA - 1)

\* C16: on an end screen (mode Win or Lose, where hintText is drawn) a
\* fresh press of N moves to the next level where there is one, a fresh
\* press of R restarts the current level, and a fresh press of M returns to
\* the menu.  The presses are those the end screen controls of the next
\* pass would see.
C16_EndScreenKeys ==
    mode \in {"Win", "Lose"} =>
        /\ (~wasN /\ currentLevel < LEVEL_COUNT) =>
               LET e == EndScreenControls(Game, {"N"})
               IN  /\ ~e.skip
                   /\ e.g.mode = "Playing"
                   /\ e.g.currentLevel = currentLevel + 1
        /\ ~wasR =>
               LET e == EndScreenControls(Game, {"R"})
               IN  /\ ~e.skip
                   /\ e.g.mode = "Playing"
                   /\ e.g.currentLevel = currentLevel
                   /\ e.g.timeLeft = LEVEL_TIME_LIMIT
                   /\ e.g.playerPos = levels[currentLevel].playerSpawn
        /\ ~wasM =>
               LET e == EndScreenControls(Game, {"M"})
               IN  e.skip /\ e.g.mode = "Menu"

\* Every powerup of level L lies in powerups as the level defines it, active.
AllPowerupsBack(ps, L) ==
    /\ Len(ps) = Len(L.powerups)
    /\ \A i \in 1..Len(ps) :
           /\ ps[i].active
           /\ ps[i].type = L.powerups[i].type
           /\ ps[i].pos = L.powerups[i].pos

\* C17: loadLevel(k) called in any state the loop reaches, with any k from
\* 0 to LEVEL_COUNT + 1, leaves currentLevel = clamp(k, 1, LEVEL_COUNT),
\* mode Playing, timeLeft = LEVEL_TIME_LIMIT, the three effect timers 0, the
\* player and the target at the spawn points of that level, its walls and
\* segments in place, and every powerup of the level active again.
C17_LoadLevelResets ==
    \A k \in 0..(LEVEL_COUNT + 1) :
        LET g  == loadLevel(Game, k)
            cl == IF k < 1 THEN 1 ELSE IF k > LEVEL_COUNT THEN LEVEL_COUNT ELSE k
            L  == levels[cl]
        IN  /\ g.currentLevel = cl
            /\ g.mode = "Playing"
            /\ g.timeLeft = LEVEL_TIME_LIMIT
            /\ g.speedBoostLeft = 0 /\ g.arrowLeft = 0 /\ g.fullLightLeft = 0
            /\ g.playerPos = L.playerSpawn
            /\ g.targetPos = L.targetSpawn
            /\ AllPowerupsBack(g.powerups, L)

\* A lost attempt at level 2 in which both powerups were picked up and an
\* effect still runs: a restart is a loadLevel(2) from here.
C17_Witness ==
    /\ mode = "Lose"
    /\ currentLevel = 2
    /\ \A i \in 1..Len(powerups) : ~powerups[i].active
    /\ arrowLeft + fullLightLeft > 0
    /\ playerPos # levels[2].playerSpawn
    /\ AllPowerupsBack(loadLevel(Game, currentLevel).powerups, levels[2])

\* The darkness overlay was drawn in the pass: the layer was filled and put
\* on the window, with both fans or with neither.
OverlayDrawn ==
    /\ RankCount(6) = 1 /\ RankCount(8) = 1
    /\ RankCount(7) = RankCount(9)

\* Nothing of the overlay was drawn: no draw into darknessRT, no layer on
\* the window, no fan.
NoOverlayDrawn ==
    \A i \in 1..Len(draws) :
        /\ draws[i].target # "darknessRT"
        /\ draws[i].what \notin {"darknessRect", "eraseFan", "darknessRT", "glowFan"}

\* C18 as stated: in every pass that displays the world the darkness
\* overlay is drawn unless fullLightLeft is above zero, and while it is
\* above zero no darkness layer and no fan is drawn.
C18_OverlayUnlessLightLeft ==
    shown = "world" =>
        IF fullLightLeft > 0 THEN NoOverlayDrawn ELSE OverlayDrawn

\* C18, amended: in every pass that displays the world the darkness overlay
\* is drawn unless fullLightLeft is above zero and the mode is Playing; in
\* that case no darkness layer and no fan is drawn.  On an end screen the
\* overlay is drawn whatever fullLightLeft is.
C18_OverlayUnlessLightWhilePlaying ==
    shown = "world" =>
        /\ dark = ~(fullLightLeft > 0 /\ mode = "Playing")
        /\ IF fullLightLeft > 0 /\ mode = "Playing"
           THEN NoOverlayDrawn /\ pc = "idle"
           ELSE OverlayDrawn /\ pc = "done"

\* Full Light runs during play: the scene and the UI are drawn and nothing
\* of the overlay.
C18_Witness ==
    /\ shown = "world"
    /\ mode = "Playing"
    /\ fullLightLeft > 0
    /\ NoOverlayDrawn
    /\ RankCount(4) = 1 /\ RankCount(10) = 3

\* C19: at the end of every pass 0 <= timeLeft <= LEVEL_TIME_LIMIT + 20.
\* The countdown of the next pass, whatever its dt, leaves it between 0 and
\* what it was, and a +Time pickup at any value in the range leaves it in
\* the range, at the clamp at most.
C19_TimeLeftBounded ==
    /\ timeLeft >= 0
    /\ timeLeft <= LEVEL_TIME_LIMIT + 20
    /\ \A dt \in Dts :
           /\ Countdown(Game, dt).timeLeft >= 0
           /\ Countdown(Game, dt).timeLeft <= timeLeft
    /\ \A t \in 0..(LEVEL_TIME_LIMIT + 20) :
           /\ AddTime(t) >= t
           /\ AddTime(t) <= LEVEL_TIME_LIMIT + 20

\* +Time was picked up in the first seconds of a level: the countdown
\* stands above LEVEL_TIME_LIMIT.
C19_Witness ==
    /\ mode = "Playing"
    /\ timeLeft > LEVEL_TIME_LIMIT
    /\ \E i \in 1..Len(powerups) :
           powerups[i].type = "AddTime" /\ ~powerups[i].active

\* The three effect timers.
Timers == << speedBoostLeft, arrowLeft, fullLightLeft >>

\* The pass found a key down that was up before, among those that load a
\* level.
FreshLoadKey ==
    \/ ~wasEnter /\ wasEnter'
    \/ ~wasR /\ wasR'
    \/ ~wasN /\ wasN'

\* A timer goes down only in a pass that starts in Playing or has loaded a
\* level, and a pass that starts elsewhere and loads none leaves the timers.
TimersRunOnlyPlaying ==
    /\ \A n \in 1..3 :
           Timers'[n] < Timers[n] => (mode = "Playing" \/ Timers'[n] = 0)
    /\ (mode # "Playing" /\ ~FreshLoadKey) => Timers' = Timers

\* C20: the effect timers are bounded and do not stack.  In every state
\* each timer lies between 0 and its duration; a pickup made while the
\* effect runs leaves the full duration, not a sum; and a timer goes down
\* only in a pass that finds the mode Playing at the timers, which is a
\* pass that starts in Playing or one that has just loaded a level and so
\* finds the timers at 0: a pass that starts in the menu or on an end
\* screen and loads no level leaves the timers as they are.
C20_EffectsBounded ==
    /\ [](/\ speedBoostLeft \in 0..SPEED_DURATION
          /\ arrowLeft \in 0..ARROW_DURATION
          /\ fullLightLeft \in 0..FULLLIGHT_DURATION
          /\ \A d \in {SPEED_DURATION, ARROW_DURATION, FULLLIGHT_DURATION} :
                 \A left \in 0..d : EffectAfterPickup(left, d) = d)
    /\ [][TimersRunOnlyPlaying]_vars

\* A level was won while Full Light had run for a part of its time: the
\* timer stands between 0 and the duration on the end screen.
C20_Witness ==
    /\ mode = "Win"
    /\ fullLightLeft > 0
    /\ fullLightLeft < FULLLIGHT_DURATION
    /\ shown = "world"

\* g is the game h with nothing changed but the edge flags of M, R and N.
OnlyEdgeFlags(g, h) ==
    g = [h EXCEPT !.wasM = g.wasM, !.wasR = g.wasR, !.wasN = g.wasN]

\* No powerup that was taken lies there again.
NoneBack(ps, qs) ==
    /\ Len(ps) = Len(qs)
    /\ \A i \in 1..Len(ps) : ps[i].active => qs[i].active

\* C21: while the mode is Playing, M, R and N change nothing but their own
\* edge flags.  Whatever the keys, the time and the move of the next pass,
\* its controls leave the game as it is but for the three flags and end in
\* no continue; the pass ends in Playing, Lose or Win, never in the menu;
\* it ends in Lose only if the countdown reaches zero and in Win only if
\* the player circle overlaps the target circle; and no level is loaded:
\* currentLevel, the walls and the target stay, the countdown does not go
\* back to the limit from below, and no taken powerup comes back.
C21_KeysIdleWhilePlaying ==
    mode = "Playing" =>
        \A down \in KeySets : \A dt \in Dts : \A step \in Steps(down, dt) :
            LET c == EndScreenControls(Game, down)
                f == Frame(Game, down, dt, step)
            IN  /\ ~c.skip
                /\ OnlyEdgeFlags(c.g, Game)
                /\ c.g.wasM = ("M" \in down)
                /\ c.g.wasR = ("R" \in down)
                /\ c.g.wasN = ("N" \in down)
                /\ f.shown = "world"
                /\ f.g.mode \in {"Playing", "Lose", "Win"}
                /\ f.g.mode = "Lose" => timeLeft - dt <= 0
                /\ f.g.mode = "Win" =>
                       circleIntersectsCircle(f.g.playerPos, PLAYER_RADIUS,
                                              f.g.targetPos, TARGET_RADIUS)
                /\ f.g.currentLevel = currentLevel
                /\ f.g.walls = walls /\ f.g.wallSegs = wallSegs
                /\ f.g.targetPos = targetPos
                /\ NoneBack(f.g.powerups, powerups)
                /\ down \subseteq {"M", "R", "N"} =>
                       /\ f.g.playerPos = playerPos
                       /\ f.g.powerups = powerups
                       /\ f.g.timeLeft = Max(0, timeLeft - dt)

\* R was pressed while the level was played, after a powerup was taken and
\* time had run, and the level is still being played as it was.
C21_Witness ==
    /\ mode = "Playing"
    /\ wasR
    /\ timeLeft < LEVEL_TIME_LIMIT
    /\ \E i \in 1..Len(powerups) : ~powerups[i].active
    /\ playerPos # levels[currentLevel].playerSpawn

\* C22: in every state 1 <= menuSelection <= LEVEL_COUNT and
\* 1 <= currentLevel <= LEVEL_COUNT, so levels[currentLevel - 1] exists.  In
\* the menu a fresh W at selection 1 gives LEVEL_COUNT and otherwise one
\* less, a fresh S at LEVEL_COUNT gives 1 and otherwise one more; on the
\* Win screen of the last level a fresh N goes to the menu, leaves
\* currentLevel as it is and ends the pass.
C22_IndicesInRange ==
    /\ menuSelection \in 1..LEVEL_COUNT
    /\ currentLevel \in 1..LEVEL_COUNT
    /\ currentLevel \in DOMAIN levels
    /\ (mode = "Menu" /\ ~wasW) =>
           MenuKeys(Game, {"W"}).menuSelection =
               (IF menuSelection = 1 THEN LEVEL_COUNT ELSE menuSelection - 1)
    /\ (mode = "Menu" /\ ~wasS) =>
           MenuKeys(Game, {"S"}).menuSelection =
               (IF menuSelection = LEVEL_COUNT THEN 1 ELSE menuSelection + 1)
    /\ (mode = "Win" /\ currentLevel = LEVEL_COUNT /\ ~wasN) =>
           LET e == EndScreenControls(Game, {"N"})
           IN  /\ e.skip
               /\ e.g.mode = "Menu"
               /\ e.g.currentLevel = LEVEL_COUNT
               /\ e.g.wallSegs = wallSegs

\* The last level was chosen in the menu and won, and N is up: a fresh N
\* would ask for a level past the end.
C22_Witness ==
    /\ mode = "Win"
    /\ currentLevel = LEVEL_COUNT
    /\ menuSelection = LEVEL_COUNT
    /\ ~wasN
    /\ LEVEL_COUNT > 1

\* C23: whenever the mode is Lose at the end of a pass, timeLeft is 0: once
\* the countdown has run out, nothing later in that pass (the move, a
\* pickup) gives time back.
C23_LoseAtZero == mode = "Lose" => timeLeft = 0

\* C24: Win and Lose agree with the countdown.  Whatever the keys, the time
\* and the move of a pass that finds the mode Playing: if timeLeft - dt <= 0
\* the pass ends in Lose, wherever the move ends; and it ends in Win only
\* if the countdown is above zero after the decrement.
C24_LoseWhenTimeIsUp ==
    mode = "Playing" =>
        \A down \in KeySets : \A dt \in Dts : \A step \in Steps(down, dt) :
            LET f == Frame(Game, down, dt, step)
            IN  InWorld(f.g.playerPos, levels[currentLevel]) =>
                    /\ timeLeft - dt <= 0 => f.g.mode = "Lose"
                    /\ f.g.mode = "Win" => timeLeft - dt > 0

\* The alphas a tint is given: none, the glow strength, one below full, full.
TintAlphas == {0, glowStrength, 254, 255}

\* C25: the mesh of buildSoftFan_Screen depends on the tint through its
\* red, green and blue alone.  The fan built is the fan of the same call
\* with any other alpha in the tint; and the erase fan and the glow fan of
\* one overlay, whose tints differ in colour and in alpha, have the same
\* number of vertices, the same positions and the same alpha at each
\* vertex.
C25_TintAlphaIgnored ==
    /\ fpc = "built" =>
           \A a \in TintAlphas :
               buildSoftFan_Screen(originScreen, polyScreen, fanRange,
                                   Color(tint.r, tint.g, tint.b, a)) = fan
    /\ (fpc = "composed" /\ fans # << >>) =>
           /\ Len(fans) = 2
           /\ Len(fans[1]) = Len(fans[2])
           /\ \A v \in 1..Len(fans[1]) :
                  /\ fans[1][v].position = fans[2][v].position
                  /\ fans[1][v].color.a = fans[2][v].color.a
                  /\ fans[2][v].color.r = WARM_TINT.r
                  /\ fans[2][v].color.g = WARM_TINT.g
                  /\ fans[2][v].color.b = WARM_TINT.b

\* An overlay whose fans have a vertex part of the way out: its alpha is
\* neither the floor nor 255 nor the glow strength, and is the same in the
\* white erase fan and the warm glow fan.
C25_Witness ==
    /\ fpc = "composed"
    /\ Len(fans) = 2
    /\ \E v \in 1..Len(fans[1]) :
           /\ fans[1][v].color.a \notin {MinAlpha, glowStrength, 255}
           /\ fans[1][v].color.a = fans[2][v].color.a
           /\ fans[1][v].color.g # fans[2][v].color.g

====
